---- MODULE Spec2Model ----
(***************************************************************************)
(* State-machine model of the agar.io clone: GameService                   *)
(* (src/src/app/services/game.service.ts) driven by the frame loop of      *)
(* GameCanvasComponent (src/src/app/components/game-canvas/).              *)
(*                                                                         *)
(* Number representation.  The program computes in IEEE doubles; the model *)
(* computes in integers:                                                   *)
(*   - positions are whole world units (0 .. MAP_WIDTH);                   *)
(*   - a mass is kept in tenths of a mass unit (2000 is 20000), so that    *)
(*     0.8 * mass and Math.floor(mass) are not the identity;               *)
(*   - a radius r is kept as its square in tenths (radiusSq = 10 * r * r), *)
(*     so that  distance < radius  is  10 * distanceSq < radiusSq  and     *)
(*     radius = 4 * sqrt(mass)  is  radiusSq = 16 * mass, both exact;      *)
(*   - speeds are thousandths of a unit per frame, the game speed is in    *)
(*     tenths; a displacement is truncated to whole units.                 *)
(***************************************************************************)
EXTENDS Integers, Sequences, FiniteSets, TLC

(***************************************************************************)
(* Program constants                                                       *)
(***************************************************************************)
MAP_WIDTH == 6000
MAP_HEIGHT == 6000
VIEWPORT_WIDTH == 1920
VIEWPORT_HEIGHT == 1080
INITIAL_PLAYER_MASS == 2000
INITIAL_BOT_COUNT == 15
FOOD_COUNT == 2000
BASE_GAME_SPEED == 50
MAX_SPEED_MULTIPLIER == 3
MIN_SAFE_DISTANCE == 200
MAX_ATTEMPTS == 50
FALLBACK_ATTEMPTS == 10

(***************************************************************************)
(* Bounds of the model                                                     *)
(***************************************************************************)
\* frames the game loop may run in one behaviour
MaxFrames == 3
\* calls of initializeGame in one behaviour
MaxInits == 2

\* outcomes of (Math.random() * MAP_WIDTH, Math.random() * MAP_HEIGHT)
SpawnPoints == {<<0, 0>>, <<3000, 3000>>}
BotPoints == {<<100, 0>>, <<3000, 3000>>}
FoodPoints == {<<100, 0>>, <<3000, 5900>>}
\* a batch of createFood() calls puts its first items, as many as one of
\* FoodSplits, on one drawn point and all the others on FoodBulkPoint
FoodSplits == {2}
FoodBulkPoint == <<3000, 5900>>
\* pointer positions on the canvas: the viewport centre and the top-left corner
MousePoints == {<<960, 540>>, <<0, 0>>}

\* bot archetypes of assets/config/bots.json (mass in tenths)
Hunter ==
  [mass |-> 21005, color |-> "#ff00ff", name |-> "Hunter", description |-> "chases"]
Prey ==
  [mass |-> 1000, color |-> "#00ffff", name |-> "Prey", description |-> "flees"]
\* the bot lists a configuration can carry
BotLists == {<<>>, <<Hunter, Prey>>, <<Prey, Hunter>>}
\* the bot lists the configuration editor saves
SavedBotLists == {<<Prey, Hunter>>}
\* the outcome of http.get that is an error
HttpError == [error |-> TRUE]
\* what the request of assets/config/bots.json can complete with
Responses == {HttpError} \cup {[bots |-> bots] : bots \in BotLists}
\* the codes of the keydown events the window can receive
KeyCodes == {"Space", "KeyW"}
\* the palette entry getRandomNeonColor() draws
NeonColors == {"#ff3366"}

NULL == [null |-> TRUE]

(***************************************************************************)
(* Arithmetic helpers                                                      *)
(***************************************************************************)
Min(a, b) == IF a < b THEN a ELSE b
Max(a, b) == IF a > b THEN a ELSE b

\* a / b truncated toward zero (b > 0)
Quot(a, b) == IF a >= 0 THEN a \div b ELSE -((-a) \div b)

\* Newton's iteration from a guess x >= sqrt(n), n > 0
RECURSIVE IsqrtFrom(_, _)
IsqrtFrom(n, x) ==
  LET y == (x + n \div x) \div 2
  IN IF y >= x THEN x ELSE IsqrtFrom(n, y)

\* floor of the square root
Isqrt(n) ==
  IF n = 0 THEN 0
  ELSE IsqrtFrom(n, IF n < 256 THEN 16
                    ELSE IF n < 65536 THEN 256
                    ELSE IF n < 16777216 THEN 4096
                    ELSE 46340)

\* Clamp without its lower bound
ClampWithoutFloor(v, limit) == Min(limit, v)

\* Math.max(0, Math.min(limit, v))
Clamp(v, limit) == Max(0, Min(limit, v))

\* squared distance; calculateDistance is its square root
DistanceSq(x1, y1, x2, y2) ==
  LET dx == x2 - x1
      dy == y2 - y1
  IN dx * dx + dy * dy

\* radius = fastSqrt(mass) * 4, as a squared radius in tenths
RadiusSqOfMass(mass) == 16 * mass

(***************************************************************************)
(* Speed curves                                                            *)
(***************************************************************************)
\* 1000 * 10^(k/10) for k = 0 .. 20: the masses (in tenths) at which
\* Math.log10(mass / 100) reaches k / 10
Log10Steps ==
  <<1000, 1259, 1585, 1995, 2512, 3162, 3981, 5012, 6310, 7943, 10000,
    12589, 15849, 19953, 25119, 31623, 39811, 50119, 63096, 79433, 100000>>

\* Math.log10(mass / massThreshold) in tenths, rounded down, for mass > 100;
\* beyond the table the value is the table's last, which Math.min caps anyway
Log10Tenths(mass) ==
  LET reached == {k \in 1..Len(Log10Steps) : Log10Steps[k] <= mass}
  IN (CHOOSE k \in reached : \A j \in reached : j <= k) - 1

\* the uncached game speed (in tenths) of a player of this mass
GameSpeedOfMass(mass) ==
  IF mass <= 100 * 10
    THEN BASE_GAME_SPEED * 10
    ELSE BASE_GAME_SPEED * (10 + Min(10 * (MAX_SPEED_MULTIPLIER - 1), Log10Tenths(mass)))

\* calculateDynamicGameSpeed whose memo is never refreshed once it is filled
calculateDynamicGameSpeedKeepsMemo(player, cache) ==
  IF player = NULL
    THEN [value |-> BASE_GAME_SPEED * 10, cache |-> cache]
  ELSE IF player.mass = cache.mass \/ cache.mass # 0
    THEN [value |-> cache.speed, cache |-> cache]
  ELSE [value |-> GameSpeedOfMass(player.mass),
        cache |-> [speed |-> GameSpeedOfMass(player.mass), mass |-> player.mass]]

\* calculateDynamicGameSpeed: [value, cache] where cache is the pair
\* (lastCalculatedSpeed, lastSpeedCalculationMass) it leaves behind
calculateDynamicGameSpeed(player, cache) ==
  IF player = NULL
    THEN [value |-> BASE_GAME_SPEED * 10, cache |-> cache]
  ELSE IF player.mass = cache.mass
    THEN [value |-> cache.speed, cache |-> cache]
  ELSE [value |-> GameSpeedOfMass(player.mass),
        cache |-> [speed |-> GameSpeedOfMass(player.mass), mass |-> player.mass]]

\* gameSpeed / fastSqrt(mass), times 1.7 for the player, in thousandths
SpeedOf(gameSpeed, mass, isPlayer) ==
  LET baseSpeed == (gameSpeed * 10000) \div Isqrt(mass * 1000)
  IN IF isPlayer THEN (baseSpeed * 17) \div 10 ELSE baseSpeed

\* calculateSpeed: [value, cache]
calculateSpeed(player, cache, mass, isPlayer) ==
  LET dyn == calculateDynamicGameSpeed(player, cache)
  IN [value |-> SpeedOf(dyn.value, mass, isPlayer), cache |-> dyn.cache]

\* (d / distance) * speed, as a displacement in whole units
Velocity(d, distance, speed) == Quot(Quot(d * speed, distance), 1000)

(***************************************************************************)
(* Entity factory                                                          *)
(***************************************************************************)
\* this.NEON_COLORS[Math.floor(Math.random() * this.NEON_COLORS.length)].main
getRandomNeonColor == CHOOSE c \in NeonColors : TRUE

\* createCell that gives a bot the mass of the configured Hunter
createCellHeavyBot(isPlayer, id, pos) ==
  [id |-> id, x |-> pos[1], y |-> pos[2],
   radiusSq |-> 10 * INITIAL_PLAYER_MASS * INITIAL_PLAYER_MASS,
   color |-> getRandomNeonColor,
   isPlayer |-> isPlayer,
   mass |-> IF isPlayer THEN 10 * INITIAL_PLAYER_MASS ELSE Hunter.mass,
   name |-> "", description |-> ""]

\* the cell createCell(isPlayer) returns for the drawn id and position; it has
\* no name and no description (here the empty string)
createCell(isPlayer, id, pos) ==
  [id |-> id, x |-> pos[1], y |-> pos[2],
   radiusSq |-> 10 * INITIAL_PLAYER_MASS * INITIAL_PLAYER_MASS,
   color |-> getRandomNeonColor,
   isPlayer |-> isPlayer, mass |-> 10 * INITIAL_PLAYER_MASS, name |-> "",
   description |-> ""]

\* createBotFromConfig with a colour of the palette instead of the entry's
createBotFromConfigPaletteColour(botConfig, id, pos) ==
  [id |-> id, x |-> pos[1], y |-> pos[2],
   radiusSq |-> RadiusSqOfMass(botConfig.mass),
   color |-> getRandomNeonColor,
   isPlayer |-> FALSE, mass |-> botConfig.mass, name |-> botConfig.name,
   description |-> botConfig.description]

createBotFromConfig(botConfig, id, pos) ==
  [id |-> id, x |-> pos[1], y |-> pos[2],
   radiusSq |-> RadiusSqOfMass(botConfig.mass),
   color |-> botConfig.color,
   isPlayer |-> FALSE, mass |-> botConfig.mass, name |-> botConfig.name,
   description |-> botConfig.description]

\* createFood with mass 2
createFoodOfMassTwo(pos, n) ==
  [x |-> pos[1], y |-> pos[2], radiusSq |-> 10 * 3 * 3, isPlayer |-> FALSE,
   mass |-> 10 * 2, n |-> n]

\* n consecutive items of the food array, all created by createFood() at pos
createFood(pos, n) ==
  [x |-> pos[1], y |-> pos[2], radiusSq |-> 10 * 3 * 3, isPlayer |-> FALSE,
   mass |-> 10 * 1, n |-> n]

\* number of items of a food array kept as runs
RECURSIVE FoodLength(_)
FoodLength(food) ==
  IF food = <<>> THEN 0 ELSE Head(food).n + FoodLength(Tail(food))

\* a food array in its unique run-length form: no empty run, no two
\* neighbouring runs at the same place
RECURSIVE Runs(_)
Runs(food) ==
  IF food = <<>> THEN <<>>
  ELSE IF Head(food).n = 0 THEN Runs(Tail(food))
  ELSE LET rest == Runs(Tail(food))
       IN IF rest # <<>> /\ Head(rest).x = Head(food).x /\ Head(rest).y = Head(food).y
            THEN <<[Head(rest) EXCEPT !.n = @ + Head(food).n]>> \o Tail(rest)
            ELSE <<Head(food)>> \o rest

\* the arrays k calls of createFood() in a row can build: the first items on
\* a drawn point, the others on FoodBulkPoint
NewFood(k) ==
  { Runs(<<createFood(p, Min(j, k)), createFood(FoodBulkPoint, k - Min(j, k))>>) :
      <<j, p>> \in FoodSplits \X FoodPoints }

(***************************************************************************)
(* Spawn placement                                                         *)
(***************************************************************************)
\* isSafe that is true of every candidate
IsSafeAlways(pos, bots) == TRUE

\* bots.every(bot => distance > MIN_SAFE_DISTANCE)
IsSafe(pos, bots) ==
  \A i \in 1..Len(bots) :
    DistanceSq(pos[1], pos[2], bots[i].x, bots[i].y) > MIN_SAFE_DISTANCE * MIN_SAFE_DISTANCE

\* Math.min(...bots.map(distance)) squared; Infinity (here -1) for no bot
MinDistanceSq(pos, bots) ==
  IF bots = <<>> THEN -1
  ELSE LET ds == {DistanceSq(pos[1], pos[2], bots[i].x, bots[i].y) : i \in 1..Len(bots)}
       IN CHOOSE d \in ds : \A e \in ds : d <= e

\* minDistance > maxMinDistance on squared distances, -1 standing for Infinity
FartherThan(minDistanceSq, maxMinDistanceSq) ==
  /\ maxMinDistanceSq # -1
  /\ minDistanceSq = -1 \/ minDistanceSq > maxMinDistanceSq

\* the (bestSpot, maxMinDistance) pairs the fallback loop can hold after i draws
RECURSIVE FallbackStates(_, _)
FallbackStates(i, bots) ==
  IF i = 0 THEN {[bestSpot |-> <<0, 0>>, maxMinDistanceSq |-> 0]}
  ELSE { IF FartherThan(MinDistanceSq(p, bots), st.maxMinDistanceSq)
           THEN [bestSpot |-> p, maxMinDistanceSq |-> MinDistanceSq(p, bots)]
           ELSE st :
         <<st, p>> \in FallbackStates(i - 1, bots) \X SpawnPoints }

\* the points the primary loop can return from attempt number `attempts` on,
\* followed by those of the fallback when every draw may be rejected
RECURSIVE SpawnFrom(_, _)
SpawnFrom(attempts, bots) ==
  IF attempts < MAX_ATTEMPTS
    THEN {p \in SpawnPoints : IsSafe(p, bots)}
         \cup (IF \E p \in SpawnPoints : ~IsSafe(p, bots)
                 THEN SpawnFrom(attempts + 1, bots) ELSE {})
    ELSE {st.bestSpot : st \in FallbackStates(FALLBACK_ATTEMPTS, bots)}

\* the runs of findSafeSpawnLocation from attempt number `attempts` on: the
\* point returned, whether the primary loop returned it, and how many
\* candidates each loop drew
RECURSIVE SpawnRuns(_, _)
SpawnRuns(attempts, bots) ==
  IF attempts < MAX_ATTEMPTS
    THEN {[spot |-> p, primary |-> TRUE, primaryDraws |-> attempts + 1, fallbackDraws |-> 0] :
            p \in {q \in SpawnPoints : IsSafe(q, bots)}}
         \cup (IF \E p \in SpawnPoints : ~IsSafe(p, bots)
                 THEN SpawnRuns(attempts + 1, bots) ELSE {})
    ELSE {[spot |-> st.bestSpot, primary |-> FALSE, primaryDraws |-> attempts,
           fallbackDraws |-> FALLBACK_ATTEMPTS] :
            st \in FallbackStates(FALLBACK_ATTEMPTS, bots)}

\* findSafeSpawnLocation(bots): every point it can return
findSafeSpawnLocation(bots) == SpawnFrom(0, bots)

(***************************************************************************)
(* Initialisation                                                          *)
(***************************************************************************)
\* the positions n bots created in a row can get: the first on one drawn
\* point, the others on a second one
Placements(n) ==
  { [i \in 1..n |-> IF i = 1 THEN a ELSE b] : <<a, b>> \in BotPoints \X BotPoints }

\* the map of a fresh state
FreshMap == [width |-> MAP_WIDTH, height |-> MAP_HEIGHT, viewportX |-> 0, viewportY |-> 0]

\* the value the BehaviorSubject is constructed with
EmptyState ==
  [player |-> NULL, bots |-> <<>>, food |-> <<>>, map |-> FreshMap,
   gameOver |-> FALSE, score |-> 0]

\* loadBotConfig: the configuration its subscriber receives, { bots: [] } from
\* catchError when the request failed
loadBotConfig(response) ==
  IF response = HttpError THEN [bots |-> <<>>] ELSE response

\* the bots initializeGame creates for the drawn positions
InitialBots(config, place) ==
  IF config # NULL /\ Len(config.bots) > 0
    THEN [i \in 1..Len(config.bots) |-> createBotFromConfig(config.bots[i], i, place[i])]
    ELSE [i \in 1..INITIAL_BOT_COUNT |-> createCell(FALSE, i, place[i])]

\* number of bots initializeGame creates
InitialBotCount(config) ==
  IF config # NULL /\ Len(config.bots) > 0 THEN Len(config.bots) ELSE INITIAL_BOT_COUNT

\* the bot population the player's spawn point is tested against:
\* createCell(true) runs first and reads this.gameState.value.bots
SpawnBots(state) == state.bots

\* initializeGame that publishes the state it found
initializeGameKeepsState(state, config) == {state}

\* initializeGame: every state it can publish from `state` under `config`
initializeGame(state, config) ==
  { [player |-> createCell(TRUE, 0, spot),
     bots |-> InitialBots(config, place),
     food |-> food,
     gameOver |-> FALSE,
     score |-> 0,
     map |-> FreshMap] :
    <<spot, place, food>> \in
      findSafeSpawnLocation(SpawnBots(state)) \X Placements(InitialBotCount(config))
        \X NewFood(FOOD_COUNT) }

(***************************************************************************)
(* Per-frame operations of the service.  Each returns                      *)
(*   state   the GameState object after the call (it is mutated in place), *)
(*   cache   the memoised game speed after the call,                       *)
(*   emits   how many times the call ran gameState.next,                   *)
(*   thrown  whether the call ended in an uncaught TypeError.              *)
(***************************************************************************)
\* the guard with the gameOver test negated
StoppedUnlessGameOver(state) == state.player = NULL /\ ~state.gameOver

\* if (!currentState.player || currentState.gameOver) return;
Stopped(state) == state.player = NULL \/ state.gameOver

\* the early return placed after this.gameState.next(currentState)
ReturnedAfterNext(state, cache) ==
  [state |-> state, cache |-> cache, emits |-> 1, thrown |-> FALSE]

\* the early return of a tick operation: nothing changed, nothing published
Returned(state, cache) == [state |-> state, cache |-> cache, emits |-> 0, thrown |-> FALSE]

Threw(state, cache) == [state |-> state, cache |-> cache, emits |-> 0, thrown |-> TRUE]

\* player.x / player.y after the move toward the pointer
MovedPlayer(player, dx, dy, distance, speed) ==
  [player EXCEPT !.x = Clamp(player.x + Velocity(dx, distance, speed), MAP_WIDTH),
                 !.y = Clamp(player.y + Velocity(dy, distance, speed), MAP_HEIGHT)]

\* the viewport offset that follows the player
ViewportOf(map, player) ==
  [map EXCEPT
     !.viewportX = Max(0, Min(MAP_WIDTH - VIEWPORT_WIDTH, player.x - VIEWPORT_WIDTH \div 2)),
     !.viewportY = Max(0, Min(MAP_HEIGHT - VIEWPORT_HEIGHT, player.y - VIEWPORT_HEIGHT \div 2))]

updatePlayerPosition(state, cache, mouse) ==
  IF Stopped(state) THEN Returned(state, cache)
  ELSE
    LET centerX == VIEWPORT_WIDTH \div 2
        centerY == VIEWPORT_HEIGHT \div 2
        dx == mouse[1] - centerX
        dy == mouse[2] - centerY
        distSq == DistanceSq(centerX, centerY, mouse[1], mouse[2])
    IN IF distSq > 0
         THEN IF state.player = NULL THEN Threw(state, cache)
              ELSE LET speed == calculateSpeed(state.player, cache, state.player.mass, TRUE)
                       player == MovedPlayer(state.player, dx, dy, Isqrt(distSq), speed.value)
                   IN [state |-> [state EXCEPT !.player = player,
                                               !.map = ViewportOf(state.map, player)],
                       cache |-> speed.cache, emits |-> 1, thrown |-> FALSE]
         ELSE [state |-> state, cache |-> cache, emits |-> 1, thrown |-> FALSE]

\* bot.mass > playerMassThreshold, with playerMassThreshold = playerMass * 1.02
BotOutweighs(botMass, playerMass) == 100 * botMass > 102 * playerMass

\* playerMass > bot.mass * 1.02
PlayerOutweighs(playerMass, botMass) == 100 * playerMass > 102 * botMass

\* distance < radius
Within(distSq, radiusSq) == 10 * distSq < radiusSq

\* Math.floor(mass) in whole units
Floor(mass) == mass \div 10

\* the whole mass of the bot
MassGainWhole(botMass) == botMass

\* bot.mass * 0.8
MassGain(botMass) == (botMass * 8) \div 10

\* MovedBot with direction = 1 whatever the masses
MovedBotAlwaysPursues(bot, playerX, playerY, playerMass, distSq, speed) ==
  LET distance == Isqrt(distSq)
  IN IF distSq > 0
       THEN [bot EXCEPT
               !.x = Clamp(bot.x + Velocity(playerX - bot.x, distance, speed), MAP_WIDTH),
               !.y = Clamp(bot.y + Velocity(playerY - bot.y, distance, speed), MAP_HEIGHT)]
       ELSE bot

\* MovedBot without the distance > 0 test: at distance 0 the bot is pushed
\* along the x axis
MovedBotPushedAtZero(bot, playerX, playerY, playerMass, distSq, speed) ==
  LET direction == IF bot.mass < playerMass THEN -1 ELSE 1
      distance == Isqrt(distSq)
  IN IF distSq > 0
       THEN [bot EXCEPT
               !.x = Clamp(bot.x + Velocity((playerX - bot.x) * direction, distance, speed), MAP_WIDTH),
               !.y = Clamp(bot.y + Velocity((playerY - bot.y) * direction, distance, speed), MAP_HEIGHT)]
       ELSE [bot EXCEPT !.x = Clamp(bot.x + Velocity(direction, 1, speed), MAP_WIDTH)]

\* the bot after its flee / pursue move
MovedBot(bot, playerX, playerY, playerMass, distSq, speed) ==
  LET direction == IF bot.mass < playerMass THEN -1 ELSE 1
      distance == Isqrt(distSq)
  IN IF distSq > 0
       THEN [bot EXCEPT
               !.x = Clamp(bot.x + Velocity((playerX - bot.x) * direction, distance, speed), MAP_WIDTH),
               !.y = Clamp(bot.y + Velocity((playerY - bot.y) * direction, distance, speed), MAP_HEIGHT)]
       ELSE bot

\* PlayerConsumed without currentState.player = null
PlayerConsumedKeepsPlayer(acc, bot, st) ==
  [acc EXCEPT !.gameOver = TRUE,
              !.score = Floor(st.playerMass),
              !.kept = Append(@, bot),
              !.seen = Append(@, bot)]

\* the bot consumes the player: game over, the score is the floor of the mass
\* read when updateBots began, the bot stays in the array
PlayerConsumed(acc, bot, st) ==
  [acc EXCEPT !.gameOver = TRUE,
              !.score = Floor(st.playerMass),
              !.player = NULL,
              !.kept = Append(@, bot),
              !.seen = Append(@, bot)]

\* BotConsumed that drops the bot without a word when the player is null
BotConsumedSilently(acc, bot) ==
  IF acc.player = NULL
    THEN [acc EXCEPT !.seen = Append(@, bot)]
    ELSE [acc EXCEPT
            !.player = [@ EXCEPT !.mass = @ + MassGain(bot.mass),
                                 !.radiusSq = RadiusSqOfMass(acc.player.mass + MassGain(bot.mass))],
            !.seen = Append(@, bot)]

\* BotConsumed that puts a bot of a new id and of the initial mass in the
\* place of the one consumed
BotConsumedAndReplaced(acc, bot) ==
  IF acc.player = NULL
    THEN [acc EXCEPT !.thrown = TRUE]
    ELSE LET fresh == [bot EXCEPT !.id = bot.id + INITIAL_BOT_COUNT,
                                  !.mass = 10 * INITIAL_PLAYER_MASS,
                                  !.radiusSq = RadiusSqOfMass(10 * INITIAL_PLAYER_MASS)]
         IN [acc EXCEPT
               !.player = [@ EXCEPT !.mass = @ + MassGain(bot.mass),
                                    !.radiusSq = RadiusSqOfMass(acc.player.mass + MassGain(bot.mass))],
               !.kept = Append(@, fresh),
               !.seen = Append(@, fresh)]

\* the player consumes the bot: currentState.player!.mass += massGain raises
\* a TypeError when the player is already null
BotConsumed(acc, bot) ==
  IF acc.player = NULL
    THEN [acc EXCEPT !.thrown = TRUE]
    ELSE [acc EXCEPT
            !.player = [@ EXCEPT !.mass = @ + MassGain(bot.mass),
                                 !.radiusSq = RadiusSqOfMass(acc.player.mass + MassGain(bot.mass))],
            !.seen = Append(@, bot)]

\* one call of the filter callback of updateBots on bot, with the values read
\* when updateBots began (st) and what the pass has done so far (acc)
BotStep(acc, bot, st) ==
  LET distSq == DistanceSq(st.playerX, st.playerY, bot.x, bot.y)
  IN IF Within(distSq, bot.radiusSq) /\ BotOutweighs(bot.mass, st.playerMass)
       THEN PlayerConsumed(acc, bot, st)
     ELSE IF Within(distSq, st.playerRadiusSq) /\ PlayerOutweighs(st.playerMass, bot.mass)
       THEN BotConsumed(acc, bot)
     ELSE LET speed == calculateSpeed(acc.player, acc.cache, bot.mass, FALSE)
              moved == MovedBot(bot, st.playerX, st.playerY, st.playerMass, distSq, speed.value)
          IN [acc EXCEPT !.cache = speed.cache,
                         !.kept = Append(@, moved),
                         !.seen = Append(@, moved)]

\* the filter of updateBots from bot number i on; it stops at a TypeError
RECURSIVE BotsPass(_, _, _, _)
BotsPass(i, acc, bots, st) ==
  IF i > Len(bots) \/ acc.thrown THEN acc
  ELSE BotsPass(i + 1, BotStep(acc, bots[i], st), bots, st)

\* playerX, playerY, playerMass and playerRadius as updateBots reads them
\* before the filter
ReadPlayer(state) ==
  [playerX |-> state.player.x, playerY |-> state.player.y,
   playerMass |-> state.player.mass, playerRadiusSq |-> state.player.radiusSq]

\* what the filter of updateBots starts from
StartOfPass(state, cache) ==
  [player |-> state.player, gameOver |-> state.gameOver, score |-> state.score,
   cache |-> cache, kept |-> <<>>, seen |-> <<>>, thrown |-> FALSE]

updateBots(state, cache) ==
  IF Stopped(state) THEN Returned(state, cache)
  ELSE IF state.player = NULL THEN Threw(state, cache)
  ELSE
    LET acc == BotsPass(1, StartOfPass(state, cache), state.bots, ReadPlayer(state))
        after == [state EXCEPT !.player = acc.player, !.gameOver = acc.gameOver,
                               !.score = acc.score]
    IN IF acc.thrown
         \* the filter never returns: the array keeps every bot, those already
         \* visited as the callback left them
         THEN Threw([after EXCEPT
                       !.bots = acc.seen \o SubSeq(state.bots, Len(acc.seen) + 1, Len(state.bots))],
                    acc.cache)
         ELSE [state |-> [after EXCEPT !.bots = acc.kept],
               cache |-> acc.cache, emits |-> 1, thrown |-> FALSE]

\* the filter of checkCollisions over the runs of the food array, with the
\* position and radius read when checkCollisions began (st)
RECURSIVE FoodPass(_, _, _, _)
FoodPass(i, acc, food, st) ==
  IF i > Len(food) THEN acc
  ELSE IF Within(DistanceSq(st.playerX, st.playerY, food[i].x, food[i].y), st.playerRadiusSq)
    THEN FoodPass(i + 1,
           [acc EXCEPT
              !.player = [@ EXCEPT !.mass = @ + food[i].n * food[i].mass,
                                   !.radiusSq = RadiusSqOfMass(acc.player.mass + food[i].n * food[i].mass)]],
           food, st)
    ELSE FoodPass(i + 1, [acc EXCEPT !.kept = Append(@, food[i])], food, st)

\* FoodNeeded short by one item
FoodNeededLessOne(length) == IF length < FOOD_COUNT THEN FOOD_COUNT - length - 1 ELSE 0

\* const foodNeeded = this.FOOD_COUNT - currentState.food.length
FoodNeeded(length) == IF length < FOOD_COUNT THEN FOOD_COUNT - length ELSE 0

\* checkCollisions: every result it can have (the new food is placed at random)
checkCollisions(state, cache) ==
  IF Stopped(state) THEN {Returned(state, cache)}
  ELSE IF state.player = NULL THEN {Threw(state, cache)}
  ELSE
    LET st == [playerX |-> state.player.x, playerY |-> state.player.y,
               playerRadiusSq |-> state.player.radiusSq]
        acc == FoodPass(1, [player |-> state.player, kept |-> <<>>],
                        state.food, st)
    IN { [state |-> [state EXCEPT !.player = acc.player,
                                  !.food = Runs(acc.kept \o newFood)],
          cache |-> cache, emits |-> 1, thrown |-> FALSE] :
         newFood \in NewFood(FoodNeeded(FoodLength(acc.kept))) }

\* splitCell that halves the player and publishes the state
splitCellHalvesPlayer(state, cache) ==
  IF state.player = NULL THEN Returned(state, cache)
  ELSE [state |-> [state EXCEPT !.player.mass = @ \div 2],
        cache |-> cache, emits |-> 1, thrown |-> FALSE]

\* splitCell(): the body is empty
splitCell(state, cache) == Returned(state, cache)

\* ejectMass(): the body is empty
ejectMass(state, cache) == Returned(state, cache)

\* handleKeyboardEvent: the switch on event.code has no default branch
handleKeyboardEvent(code, state, cache) ==
  CASE code = "Space" -> splitCell(state, cache)
    [] code = "KeyW" -> ejectMass(state, cache)
    [] OTHER -> Returned(state, cache)

(***************************************************************************)
(* State                                                                   *)
(***************************************************************************)
VARIABLES
  gameState,                 \* GameService.gameState.value
  botConfig,                 \* GameService.botConfig
  lastCalculatedSpeed,       \* GameService.lastCalculatedSpeed (tenths)
  lastSpeedCalculationMass,  \* GameService.lastSpeedCalculationMass (tenths)
  mousePosition,             \* GameCanvasComponent.mousePosition
  animationFrameId,          \* GameCanvasComponent.animationFrameId
  pendingFrames,             \* handles of the requested animation frames not yet run or cancelled
  frames,                    \* runs of gameLoop begun so far; the handle of the next request
  pc,                        \* the call the running gameLoop is at, "idle" between callbacks
  emits,                     \* gameState.next calls of the handler that ran last
  thrown,                    \* whether the handler that ran last ended in an uncaught TypeError
  command,                   \* event.code of the last keydown handled since the last frame or initializeGame, else "none"
  viewInit,                  \* ngAfterViewInit has run
  configRequest,             \* the http.get of loadBotConfig: "pending" or "done"
  inits                      \* calls of initializeGame so far

vars ==
  <<gameState, botConfig, lastCalculatedSpeed, lastSpeedCalculationMass, mousePosition,
    animationFrameId, pendingFrames, frames, pc, emits, thrown, command, viewInit,
    configRequest, inits>>

cacheVars == <<lastCalculatedSpeed, lastSpeedCalculationMass>>
loopVars == <<animationFrameId, pendingFrames, frames>>

Cache == [speed |-> lastCalculatedSpeed, mass |-> lastSpeedCalculationMass]

\* the state after the constructors of GameService and GameCanvasComponent
Init ==
  /\ gameState = EmptyState
  /\ botConfig = NULL
  /\ lastCalculatedSpeed = 0
  /\ lastSpeedCalculationMass = 0
  /\ mousePosition = <<0, 0>>
  /\ animationFrameId = 0
  /\ pendingFrames = {}
  /\ frames = 0
  /\ pc = "idle"
  /\ emits = 0
  /\ thrown = FALSE
  /\ command = "none"
  /\ viewInit = FALSE
  /\ configRequest = "pending"
  /\ inits = 0

(***************************************************************************)
(* The game loop: gameLoop() runs updatePlayerPosition, updateBots and     *)
(* checkCollisions and requests the next frame; nothing else runs until it *)
(* has returned or thrown.                                                 *)
(***************************************************************************)
\* startGameLoop calls gameLoop() at once
BeginLoop ==
  /\ frames' = frames + 1
  /\ pc' = "updatePlayerPosition"
  /\ emits' = 0
  /\ thrown' = FALSE
  /\ command' = "none"

\* ngAfterViewInit
NgAfterViewInit ==
  /\ pc = "idle" /\ ~viewInit /\ frames < MaxFrames
  /\ viewInit' = TRUE
  /\ BeginLoop
  /\ UNCHANGED <<gameState, botConfig, cacheVars, mousePosition, animationFrameId,
                 pendingFrames, configRequest, inits>>

\* the browser runs a requested animation frame
FrameCallback ==
  /\ pc = "idle" /\ frames < MaxFrames
  /\ \E handle \in pendingFrames : pendingFrames' = pendingFrames \ {handle}
  /\ BeginLoop
  /\ UNCHANGED <<gameState, botConfig, cacheVars, mousePosition, animationFrameId,
                 viewInit, configRequest, inits>>

UpdatePlayerPosition ==
  /\ pc = "updatePlayerPosition"
  /\ LET r == updatePlayerPosition(gameState, Cache, mousePosition)
     IN /\ gameState' = r.state
        /\ lastCalculatedSpeed' = r.cache.speed
        /\ lastSpeedCalculationMass' = r.cache.mass
        /\ emits' = emits + r.emits
        /\ thrown' = r.thrown
        /\ pc' = IF r.thrown THEN "idle" ELSE "updateBots"
  /\ UNCHANGED <<botConfig, mousePosition, loopVars, command, viewInit, configRequest, inits>>

UpdateBots ==
  /\ pc = "updateBots"
  /\ LET r == updateBots(gameState, Cache)
     IN /\ gameState' = r.state
        /\ lastCalculatedSpeed' = r.cache.speed
        /\ lastSpeedCalculationMass' = r.cache.mass
        /\ emits' = emits + r.emits
        /\ thrown' = r.thrown
        /\ pc' = IF r.thrown THEN "idle" ELSE "checkCollisions"
  /\ UNCHANGED <<botConfig, mousePosition, loopVars, command, viewInit, configRequest, inits>>

\* checkCollisions, then this.animationFrameId = requestAnimationFrame(gameLoop)
CheckCollisions ==
  /\ pc = "checkCollisions"
  /\ \E r \in checkCollisions(gameState, Cache) :
       /\ gameState' = r.state
       /\ lastCalculatedSpeed' = r.cache.speed
       /\ lastSpeedCalculationMass' = r.cache.mass
       /\ emits' = emits + r.emits
       /\ thrown' = r.thrown
       /\ animationFrameId' = IF r.thrown THEN animationFrameId ELSE frames
       /\ pendingFrames' = IF r.thrown THEN pendingFrames ELSE pendingFrames \cup {frames}
  /\ pc' = "idle"
  /\ UNCHANGED <<botConfig, mousePosition, frames, command, viewInit, configRequest, inits>>

(***************************************************************************)
(* Events between two callbacks                                            *)
(***************************************************************************)
\* this.gameState.next(initialState) of initializeGame
InitializeGame(config) ==
  /\ inits < MaxInits
  /\ inits' = inits + 1
  /\ gameState' \in initializeGame(gameState, config)

\* the subscriber of loadBotConfig(): the response of assets/config/bots.json,
\* or { bots: [] } from catchError
ConfigLoaded ==
  /\ pc = "idle" /\ viewInit /\ configRequest = "pending"
  /\ \E response \in Responses :
       /\ botConfig' = loadBotConfig(response)
       /\ InitializeGame(loadBotConfig(response))
  /\ configRequest' = "done"
  /\ emits' = 1
  /\ thrown' = FALSE
  /\ command' = "none"
  /\ UNCHANGED <<cacheVars, mousePosition, loopVars, pc, viewInit>>

\* GameService.saveBotConfig(config), called by BotConfigComponent.saveConfig
\* on the configuration its loadConfig() has fetched
SaveBotConfig ==
  /\ pc = "idle" /\ viewInit /\ configRequest = "done"
  /\ \E bots \in SavedBotLists :
       /\ botConfig' = [bots |-> bots]
       /\ InitializeGame([bots |-> bots])
  /\ emits' = 1
  /\ thrown' = FALSE
  /\ command' = "none"
  /\ UNCHANGED <<cacheVars, mousePosition, loopVars, pc, viewInit, configRequest>>

\* restartGame that leaves the requested frame in place
cancelNothing(handle, pending) == pending

\* if (this.animationFrameId) { cancelAnimationFrame(this.animationFrameId); }
cancelPending(handle, pending) ==
  IF handle # 0 THEN pending \ {handle} ELSE pending

\* GameCanvasComponent.restartGame, the handler of the "Play Again" button the
\* template shows while currentGameState.gameOver: cancel the requested frame,
\* restart the service, start the loop again
RestartGame ==
  /\ pc = "idle" /\ viewInit /\ frames < MaxFrames
  /\ gameState.gameOver
  /\ pendingFrames' = cancelPending(animationFrameId, pendingFrames)
  /\ InitializeGame(botConfig)
  /\ frames' = frames + 1
  /\ pc' = "updatePlayerPosition"
  /\ emits' = 1
  /\ thrown' = FALSE
  /\ command' = "none"
  /\ UNCHANGED <<botConfig, cacheVars, mousePosition, animationFrameId, viewInit,
                 configRequest>>

\* onMouseMove / handleTouch
OnMouseMove ==
  /\ pc = "idle" /\ viewInit
  /\ \E p \in MousePoints : mousePosition' = p
  /\ UNCHANGED <<gameState, botConfig, cacheVars, loopVars, pc, emits, thrown, command, viewInit,
                 configRequest, inits>>

\* the service call of a keydown handler: the game state, the memoised speed
\* and what the call published and raised
Command(code) ==
  LET r == handleKeyboardEvent(code, gameState, Cache)
  IN /\ gameState' = r.state
     /\ lastCalculatedSpeed' = r.cache.speed
     /\ lastSpeedCalculationMass' = r.cache.mass
     /\ emits' = r.emits
     /\ thrown' = r.thrown
     /\ command' = code
     /\ UNCHANGED <<botConfig, mousePosition, loopVars, pc, viewInit, configRequest, inits>>

\* @HostListener('window:keydown')
HandleKeyboardEvent ==
  /\ pc = "idle" /\ viewInit
  /\ \E code \in KeyCodes : Command(code)

\* the Split touch button: handleKeyboardEvent(new KeyboardEvent('keydown', { code: 'Space' }))
OnSplit ==
  /\ pc = "idle" /\ viewInit
  /\ Command("Space")

\* the Eject touch button: handleKeyboardEvent(new KeyboardEvent('keydown', { code: 'KeyW' }))
OnEject ==
  /\ pc = "idle" /\ viewInit
  /\ Command("KeyW")

Next ==
  \/ NgAfterViewInit
  \/ FrameCallback
  \/ UpdatePlayerPosition
  \/ UpdateBots
  \/ CheckCollisions
  \/ ConfigLoaded
  \/ SaveBotConfig
  \/ RestartGame
  \/ OnMouseMove
  \/ HandleKeyboardEvent
  \/ OnSplit
  \/ OnEject

Spec == Init /\ [][Next]_vars

\* a gameLoop call is running
InFrame == pc \in {"updatePlayerPosition", "updateBots", "checkCollisions"}

\* the running gameLoop call goes on to its next call or returns; in a state
\* of InFrame the only steps of Next are UpdatePlayerPosition, UpdateBots and
\* CheckCollisions, each of which is enabled at its pc and changes pc
FrameAdvances == InFrame /\ pc' \in {"updateBots", "checkCollisions", "idle"}

\* Spec with the scheduling the browser gives: the view is initialised, a
\* running gameLoop call runs to its end (JavaScript runs a callback to
\* completion), and the callback of the configuration request, which can only
\* run between two callbacks, is not postponed forever
FairSpec ==
  /\ Spec
  /\ WF_vars(NgAfterViewInit)
  /\ WF_pc(FrameAdvances)
  /\ SF_vars(ConfigLoaded)

(***************************************************************************)
(* Properties                                                              *)
(***************************************************************************)
\* C1: once gameOver is true, every call of updatePlayerPosition, updateBots
\* and checkCollisions returns normally and leaves the game state (and the
\* memoised speed) as it was, publishing nothing; the state of a finished game
\* changes only in a step that runs initializeGame.
C1_TerminalNoOp ==
  [][gameState.gameOver =>
       /\ InFrame => /\ gameState' = gameState
                     /\ lastCalculatedSpeed' = lastCalculatedSpeed
                     /\ lastSpeedCalculationMass' = lastSpeedCalculationMass
                     /\ emits' = emits
                     /\ ~thrown'
       /\ gameState' # gameState => inits' = inits + 1]_vars

\* C1 witness: a whole frame has run on a finished game
C1_FrameAfterGameOver ==
  /\ gameState.gameOver /\ pc = "idle" /\ ~thrown
  /\ frames > 0 /\ animationFrameId = frames /\ emits = 0

\* C2: no call of the three frame operations ends in an uncaught error, so
\* every frame requests the next one.
C2_NeverThrows == ~thrown

\* the accumulator of the updateBots pass of the current state when it
\* reaches bot number i
AccBefore(i) ==
  BotsPass(1, StartOfPass(gameState, Cache), SubSeq(gameState.bots, 1, i - 1),
           ReadPlayer(gameState))

\* bot.mass / player.mass lies in [1/1.02, 1.02]
NearEqual(botMass, playerMass) ==
  ~BotOutweighs(botMass, playerMass) /\ ~PlayerOutweighs(playerMass, botMass)

\* C3: in the updateBots pass about to run, a bot that consumes the player
\* outweighs the player's mass of that moment by more than 1.02, a bot the
\* player consumes is outweighed by the player's mass of that moment by more
\* than 1.02, and a pair whose masses are within 1.02 of each other at that
\* moment does neither.
C3_ConsumptionThreshold ==
  (pc = "updateBots" /\ ~Stopped(gameState)) =>
    \A i \in 1..Len(gameState.bots) :
      LET before == AccBefore(i)
          bot == gameState.bots[i]
          after == BotStep(before, bot, ReadPlayer(gameState))
          live == ~before.thrown /\ before.player # NULL
          botEats == live /\ after.player = NULL
          playerEats == live /\ after.player # NULL /\ after.player.mass > before.player.mass
      IN live =>
           /\ botEats => BotOutweighs(bot.mass, before.player.mass)
           /\ playerEats => PlayerOutweighs(before.player.mass, bot.mass)
           /\ NearEqual(bot.mass, before.player.mass) => ~botEats /\ ~playerEats

\* radius = 4 * sqrt(mass)
RadiusFollowsMass(cell) == cell.radiusSq = 16 * cell.mass

\* C4: between two frames every player, bot and food entity has the radius
\* 4 * sqrt(mass) of its mass.
C4_RadiusFollowsMass ==
  pc = "idle" =>
    /\ gameState.player # NULL => RadiusFollowsMass(gameState.player)
    /\ \A i \in 1..Len(gameState.bots) : RadiusFollowsMass(gameState.bots[i])
    /\ \A i \in 1..Len(gameState.food) : RadiusFollowsMass(gameState.food[i])

\* distance >= MIN_SAFE_DISTANCE to every bot
AtSafeDistance(cell, bots) ==
  \A i \in 1..Len(bots) :
    DistanceSq(cell.x, cell.y, bots[i].x, bots[i].y) >= MIN_SAFE_DISTANCE * MIN_SAFE_DISTANCE

\* cell sits on the point of a non-empty sample of fallback candidates whose
\* minimum distance to the bots is the largest of the sample
BestOfSomeSample(cell, bots) ==
  \E sample \in SUBSET SpawnPoints :
    /\ <<cell.x, cell.y>> \in sample
    /\ \A c \in sample :
         FartherThan(MinDistanceSq(c, bots), MinDistanceSq(<<cell.x, cell.y>>, bots)) = FALSE

\* every one of the 50 primary draws can be rejected
PrimaryCanFail(bots) == \E p \in SpawnPoints : ~IsSafe(p, bots)

\* C5: every initializeGame leaves the player at the safe distance from every
\* bot of the state it creates, or, the 50 primary draws having all been
\* rejected, on the fallback candidate farthest from those bots.
C5_SpawnSafety ==
  [][inits' = inits + 1 =>
       \/ AtSafeDistance(gameState'.player, gameState'.bots)
       \/ /\ PrimaryCanFail(gameState.bots)
          /\ BestOfSomeSample(gameState'.player, gameState'.bots)]_vars

\* the player's mass when the first bot of the pass about to run consumes it
RECURSIVE MassWhenConsumed(_)
MassWhenConsumed(i) ==
  LET before == AccBefore(i)
  IN IF BotStep(before, gameState.bots[i], ReadPlayer(gameState)).player = NULL
       THEN before.player.mass
       ELSE MassWhenConsumed(i + 1)

\* C6: an updateBots pass in which a bot consumes the player ends with
\* gameOver set, the player null and the score the floor of the mass the player
\* has when it is consumed, gains of that pass included.
C6_ScoreAtDeath ==
  [][(pc = "updateBots" /\ ~gameState.gameOver /\ gameState'.gameOver) =>
       /\ gameState'.player = NULL
       /\ gameState'.score = Floor(MassWhenConsumed(1))]_vars

\* C7 as stated: whenever checkCollisions returns, the food collection holds
\* exactly FOOD_COUNT items.
C7_FoodCountAfterEveryPass ==
  [][pc = "checkCollisions" => FoodLength(gameState'.food) = FOOD_COUNT]_vars

\* C7: whenever checkCollisions returns after initializeGame has run, the food
\* collection holds exactly FOOD_COUNT items; before the first initializeGame
\* it returns with the collection still empty.
C7_FoodCountOnceInitialised ==
  [][pc = "checkCollisions" =>
       FoodLength(gameState'.food) = IF inits > 0 THEN FOOD_COUNT ELSE 0]_vars

\* C7 witness: a pass has eaten two food items and has replaced them
C7_TwoEatenAndReplaced ==
  /\ pc = "idle" /\ emits = 3 /\ gameState.player # NULL
  /\ gameState.player.mass = 10 * INITIAL_PLAYER_MASS + 2 * 10
  /\ FoodLength(gameState.food) = FOOD_COUNT

InBounds(cell) == 0 <= cell.x /\ cell.x <= MAP_WIDTH /\ 0 <= cell.y /\ cell.y <= MAP_HEIGHT

\* C8: every player, bot and food entity lies within the map, whatever spawn
\* point was drawn and whatever moves have been made.
C8_BoundaryContainment ==
  /\ gameState.player # NULL => InBounds(gameState.player)
  /\ \A i \in 1..Len(gameState.bots) : InBounds(gameState.bots[i])
  /\ \A i \in 1..Len(gameState.food) : InBounds(gameState.food[i])

\* C8 witness: updatePlayerPosition has just moved the player, who stands in
\* the corner of the map, toward the corner
C8_MovedAgainstTheEdge ==
  /\ pc = "updateBots" /\ emits >= 1 /\ ~Stopped(gameState)
  /\ mousePosition = <<0, 0>>
  /\ gameState.player.x = 0 /\ gameState.player.y = 0

\* C9: no bot and no food item has isPlayer set, the player has it, a finished
\* game has no player, and once initializeGame has run a state without player
\* is a finished game.
C9_SinglePlayer ==
  /\ gameState.player # NULL => gameState.player.isPlayer
  /\ \A i \in 1..Len(gameState.bots) : ~gameState.bots[i].isPlayer
  /\ \A i \in 1..Len(gameState.food) : ~gameState.food[i].isPlayer
  /\ gameState.gameOver => gameState.player = NULL
  /\ (inits > 0 /\ gameState.player = NULL) => gameState.gameOver

\* C9 witness: a bot has consumed the player
C9_PlayerConsumed ==
  /\ inits > 0 /\ gameState.gameOver /\ gameState.player = NULL
  /\ gameState.score >= INITIAL_PLAYER_MASS

\* C10: restartGame produces a running game with score 0, a player of mass
\* INITIAL_PLAYER_MASS and FOOD_COUNT food items, and what it can produce is
\* what it can produce from the empty state: nothing of the state it discards
\* has a say.
C10_RestartIgnoresPriorState ==
  [][(inits' = inits + 1 /\ frames' = frames + 1) =>
       /\ ~gameState'.gameOver
       /\ gameState'.score = 0
       /\ gameState'.player # NULL
       /\ gameState'.player.mass = 10 * INITIAL_PLAYER_MASS
       /\ FoodLength(gameState'.food) = FOOD_COUNT
       /\ Len(gameState'.bots) = InitialBotCount(botConfig')
       /\ initializeGame(gameState, botConfig') = initializeGame(EmptyState, botConfig')]_vars

\* the cell is one createCell(false) makes: initial mass, the radius of
\* createCell, a palette colour, no name and no description
Procedural(cell) ==
  /\ cell.mass = 10 * INITIAL_PLAYER_MASS
  /\ cell.radiusSq = 10 * INITIAL_PLAYER_MASS * INITIAL_PLAYER_MASS
  /\ cell.color \in NeonColors
  /\ cell.name = "" /\ cell.description = ""
  /\ ~cell.isPlayer

\* C11: every initializeGame under a missing or empty configuration (a failed
\* request delivers the empty one) creates exactly INITIAL_BOT_COUNT procedural
\* bots, and under a configuration of n >= 1 entries exactly n bots, the i-th
\* with the mass, colour, name and description of the i-th entry.
C11_BotsFollowConfig ==
  [][inits' = inits + 1 =>
       IF botConfig' = NULL \/ botConfig'.bots = <<>>
         THEN /\ Len(gameState'.bots) = INITIAL_BOT_COUNT
              /\ \A i \in 1..INITIAL_BOT_COUNT : Procedural(gameState'.bots[i])
         ELSE /\ Len(gameState'.bots) = Len(botConfig'.bots)
              /\ \A i \in 1..Len(botConfig'.bots) :
                   /\ gameState'.bots[i].mass = botConfig'.bots[i].mass
                   /\ gameState'.bots[i].color = botConfig'.bots[i].color
                   /\ gameState'.bots[i].name = botConfig'.bots[i].name
                   /\ gameState'.bots[i].description = botConfig'.bots[i].description]_vars

\* C11 witness: the game has been initialised under an empty configuration,
\* the one a failed request delivers, and is running with the procedural bots
C11_FallbackBotsCreated ==
  /\ inits = 1 /\ configRequest = "done" /\ botConfig = loadBotConfig(HttpError)
  /\ Len(gameState.bots) = INITIAL_BOT_COUNT
  /\ gameState.player # NULL /\ ~gameState.gameOver

\* a playable state: there is a player and the game is not over
Playable == gameState.player # NULL /\ ~gameState.gameOver

\* C12: when the configuration request completes, with a response or with an
\* error, the game reaches a playable state, whatever frames and commands ran
\* before the callback.
C12_EventuallyPlayable == <>Playable

\* C12 witness: the game is playable after a load callback that came only
\* after the loop had run all its frames on the empty state
C12_PlayableAfterLateLoad ==
  /\ Playable /\ configRequest = "done" /\ inits = 1
  /\ frames = MaxFrames /\ pendingFrames # {} /\ pc = "idle" /\ emits = 1

\* a step that handles a keydown (from the keyboard or from a touch button)
CommandStep == command' # "none" /\ command' # command

C14_OneSnapshotPerTick ==
  [][(InFrame /\ Playable) =>
       emits' = IF pc = "checkCollisions" THEN 1 ELSE 0]_vars

\* C15: a tick begins at updatePlayerPosition, goes on to updateBots, then to
\* checkCollisions and then ends, each of the three running once; no
\* initializeGame and no command runs inside it, and the pass of updateBots
\* reads the player that updatePlayerPosition left.
C15_FixedOrderPerTick ==
  [][/\ (pc = "idle" /\ pc' # "idle") => pc' = "updatePlayerPosition"
     /\ pc = "updatePlayerPosition" => pc' = "updateBots"
     /\ pc = "updateBots" =>
          /\ pc' = "checkCollisions"
          /\ gameState' = updateBots(gameState, Cache).state
     /\ pc = "checkCollisions" => pc' = "idle" /\ animationFrameId' = frames
     /\ InFrame => inits' = inits /\ command' = command /\ frames' = frames]_vars

\* which of the two consumption checks of updateBots a bot passes against the
\* player values st, the bot-eats-player check coming first
Verdict(bot, st) ==
  LET distSq == DistanceSq(st.playerX, st.playerY, bot.x, bot.y)
  IN IF Within(distSq, bot.radiusSq) /\ BotOutweighs(bot.mass, st.playerMass)
       THEN "botEatsPlayer"
     ELSE IF Within(distSq, st.playerRadiusSq) /\ PlayerOutweighs(st.playerMass, bot.mass)
       THEN "playerEatsBot"
     ELSE "none"

\* the accumulator of the checkCollisions pass of the current state when it
\* reaches run number i of the food array
FoodAccBefore(i) ==
  FoodPass(1, [player |-> gameState.player, kept |-> <<>>],
           SubSeq(gameState.food, 1, i - 1),
           [playerX |-> gameState.player.x, playerY |-> gameState.player.y,
            playerRadiusSq |-> gameState.player.radiusSq])

\* C16: in the updateBots pass about to run, each bot gets the verdict it
\* would get against the player's mass and radius of that moment, and in the
\* checkCollisions pass about to run each food item is tested against the
\* player's radius of that moment.
C16_ChecksUseCurrentMass ==
  /\ (pc = "updateBots" /\ ~Stopped(gameState)) =>
       \A i \in 1..Len(gameState.bots) :
         LET before == AccBefore(i)
         IN (~before.thrown /\ before.player # NULL) =>
              Verdict(gameState.bots[i], ReadPlayer(gameState))
                = Verdict(gameState.bots[i], ReadPlayer(before))
  /\ (pc = "checkCollisions" /\ ~Stopped(gameState)) =>
       \A i \in 1..Len(gameState.food) :
         LET before == FoodAccBefore(i)
             food == gameState.food[i]
             distSq == DistanceSq(gameState.player.x, gameState.player.y, food.x, food.y)
             eaten == Within(distSq, gameState.player.radiusSq)
         IN /\ eaten = Within(distSq, before.player.radiusSq)
            /\ (eaten /\ food.n > 1) =>
                 Within(distSq, RadiusSqOfMass(before.player.mass + food.mass))

\* the ids of a sequence of cells, in order
Ids(cells) == [i \in 1..Len(cells) |-> cells[i].id]

\* the masses of a sequence of cells, in order
Masses(cells) == [i \in 1..Len(cells) |-> cells[i].mass]

\* the first bot from number i on that consumes the player in the updateBots
\* pass about to run
RECURSIVE ConsumerIndex(_)
ConsumerIndex(i) ==
  IF BotStep(AccBefore(i), gameState.bots[i], ReadPlayer(gameState)).player = NULL
    THEN i
    ELSE ConsumerIndex(i + 1)

\* C17: a bot that passes the bot-eats-player check consumes the player
\* whatever the player-eats-bot check would say; and once a bot has consumed
\* the player, the bots of the array from that bot on all stay, no bot's mass
\* changes, no food is consumed, and the rest of the tick leaves bots, food and
\* the missing player as they are.
C17_NothingAfterPlayerConsumed ==
  [][/\ (pc = "updateBots" /\ ~Stopped(gameState)) =>
          \A i \in 1..Len(gameState.bots) :
            LET before == AccBefore(i)
                bot == gameState.bots[i]
                st == ReadPlayer(gameState)
            IN (~before.thrown /\ before.player # NULL
                  /\ Within(DistanceSq(st.playerX, st.playerY, bot.x, bot.y), bot.radiusSq)
                  /\ BotOutweighs(bot.mass, st.playerMass)) =>
                 /\ gameState'.player = NULL /\ gameState'.gameOver
                 /\ \E j \in 1..Len(gameState'.bots) : gameState'.bots[j] = bot
     /\ (pc = "updateBots" /\ ~Stopped(gameState) /\ gameState'.player = NULL) =>
          LET k == ConsumerIndex(1)
              rest == SubSeq(gameState.bots, k, Len(gameState.bots))
          IN /\ Ids(gameState'.bots) = Ids(AccBefore(k).kept) \o Ids(rest)
             /\ Masses(gameState'.bots) = Masses(AccBefore(k).kept) \o Masses(rest)
             /\ gameState'.food = gameState.food
     /\ (InFrame /\ inits > 0 /\ gameState.player = NULL) =>
          /\ gameState'.player = NULL
          /\ gameState'.bots = gameState.bots
          /\ gameState'.food = gameState.food]_vars

\* C17 witness: the first bot of the array has consumed the player and the tick
\* has ended with the bot after it still in the array
C17_ConsumedBeforeLastBot ==
  /\ pc = "idle" /\ gameState.gameOver /\ gameState.player = NULL
  /\ Len(gameState.bots) = 2 /\ gameState.bots[1].name = "Hunter"
  /\ gameState.bots[2].name = "Prey"

\* the cell of this id in a sequence of cells with distinct ids
CellOfId(cells, id) == cells[CHOOSE j \in 1..Len(cells) : cells[j].id = id]

\* C18: the two overlap checks of a bot in updateBots use the player's
\* position after updatePlayerPosition and, for a bot the pass keeps, the
\* position that bot has after its move of this pass.
C18_ChecksAfterMovement ==
  [][(pc = "updateBots" /\ ~Stopped(gameState) /\ ~thrown') =>
       /\ ReadPlayer(gameState).playerX = gameState.player.x
       /\ ReadPlayer(gameState).playerY = gameState.player.y
       /\ \A i \in 1..Len(gameState'.bots) :
            LET after == gameState'.bots[i]
                checked == CellOfId(gameState.bots, after.id)
            IN checked.x = after.x /\ checked.y = after.y]_vars

\* the sum of the masses of a sequence of cells
RECURSIVE SumMass(_)
SumMass(cells) ==
  IF cells = <<>> THEN 0 ELSE Head(cells).mass + SumMass(Tail(cells))

\* C19: an updateBots pass the player survives removes exactly the bots that
\* lie within the player's radius and that the player outweighs by more than
\* 1.02 (radius and mass as the pass found them), adds 0.8 times the sum of
\* their masses to the player's mass, sets the player's radius to
\* 4 * sqrt(mass) if it removed a bot, and leaves the other bots their ids and
\* masses.
C19_BotsRemovedAndMassGained ==
  [][(pc = "updateBots" /\ ~Stopped(gameState) /\ gameState'.player # NULL) =>
       LET player == gameState.player
           Eaten(bot) ==
             /\ Within(DistanceSq(player.x, player.y, bot.x, bot.y), player.radiusSq)
             /\ PlayerOutweighs(player.mass, bot.mass)
           Left(bot) == ~Eaten(bot)
           removed == SelectSeq(gameState.bots, Eaten)
           remaining == SelectSeq(gameState.bots, Left)
       IN /\ Ids(gameState'.bots) = Ids(remaining)
          /\ Masses(gameState'.bots) = Masses(remaining)
          /\ 10 * (gameState'.player.mass - player.mass) = 8 * SumMass(removed)
          /\ gameState'.player.radiusSq =
               IF removed # <<>> THEN RadiusSqOfMass(gameState'.player.mass)
               ELSE player.radiusSq]_vars

\* C19 witness: the player has consumed Prey and survived the pass; the other
\* bot is still there
C19_PreyConsumed ==
  /\ pc = "checkCollisions" /\ Playable
  /\ gameState.player.mass = 10 * INITIAL_PLAYER_MASS + MassGain(Prey.mass)
  /\ Len(gameState.bots) = 1 /\ gameState.bots[1].name = "Hunter"

\* C20: a checkCollisions pass of a running game that removes k food items
\* (those within the radius the pass found the player with) adds k times the
\* food mass 1 to the player's mass, keeps every other item as it is, appends k
\* new items, and sets the player's radius to 4 * sqrt(mass) when k > 0.
C20_FoodEatenAndReplaced ==
  [][(pc = "checkCollisions" /\ ~Stopped(gameState)) =>
       LET player == gameState.player
           Outside(food) ==
             ~Within(DistanceSq(player.x, player.y, food.x, food.y), player.radiusSq)
           kept == SelectSeq(gameState.food, Outside)
           k == FoodLength(gameState.food) - FoodLength(kept)
       IN /\ gameState'.player.mass = player.mass + k * (10 * 1)
          /\ \E newFood \in NewFood(k) : gameState'.food = Runs(kept \o newFood)
          /\ FoodLength(gameState'.food) = FoodLength(kept) + k
          /\ gameState'.player.radiusSq =
               IF k > 0 THEN RadiusSqOfMass(gameState'.player.mass)
               ELSE player.radiusSq]_vars

\* C20 witness: the pass has removed two food items next to the player, whose
\* radius now follows its mass, and has put their replacements elsewhere
C20_TwoItemsReplacedElsewhere ==
  /\ pc = "idle" /\ Playable /\ emits = 3
  /\ gameState.player.mass = 10 * INITIAL_PLAYER_MASS + 2 * 10
  /\ gameState.player.radiusSq = RadiusSqOfMass(gameState.player.mass)
  /\ Len(gameState.food) = 1 /\ gameState.food[1].n = FOOD_COUNT

Abs(a) == IF a < 0 THEN -a ELSE a

\* the move from `before` to `after` is along the line through `before` and
\* the player at (playerX, playerY), up to the truncation of each component to
\* a whole unit
AlongLine(before, after, playerX, playerY) ==
  LET lx == playerX - before.x
      ly == playerY - before.y
  IN Abs((after.x - before.x) * ly - (after.y - before.y) * lx) <= Abs(lx) + Abs(ly)

\* on neither axis does the move go against direction (1 toward the player,
\* -1 away from it)
InSense(before, after, playerX, playerY, direction) ==
  /\ (after.x - before.x) * (playerX - before.x) * direction >= 0
  /\ (after.y - before.y) * (playerY - before.y) * direction >= 0

\* the cell is not on the edge of the map
Interior(cell) ==
  0 < cell.x /\ cell.x < MAP_WIDTH /\ 0 < cell.y /\ cell.y < MAP_HEIGHT

\* C21 as stated: every bot that moves in updateBots moves along the line
\* through itself and the player, away from the player when its mass is less
\* than the player's and toward it otherwise.
C21_MovesAlongLine ==
  [][(pc = "updateBots" /\ ~Stopped(gameState)) =>
       \A i \in 1..Len(gameState'.bots) :
         LET after == gameState'.bots[i]
             before == CellOfId(gameState.bots, after.id)
             player == gameState.player
             direction == IF before.mass < player.mass THEN -1 ELSE 1
         IN (after.x # before.x \/ after.y # before.y) =>
              /\ InSense(before, after, player.x, player.y, direction)
              /\ AlongLine(before, after, player.x, player.y)]_vars

\* C21: every bot that moves in updateBots moves, on each axis, away from the
\* player when its mass is less than the player's mass of this tick and toward
\* the player otherwise, and along the line through itself and the player
\* unless the move ends on the edge of the map, where the clamp of each
\* coordinate bends it.
C21_MovesAlongLineUnlessClamped ==
  [][(pc = "updateBots" /\ ~Stopped(gameState)) =>
       \A i \in 1..Len(gameState'.bots) :
         LET after == gameState'.bots[i]
             before == CellOfId(gameState.bots, after.id)
             player == gameState.player
             direction == IF before.mass < player.mass THEN -1 ELSE 1
         IN (after.x # before.x \/ after.y # before.y) =>
              /\ InSense(before, after, player.x, player.y, direction)
              /\ Interior(after) => AlongLine(before, after, player.x, player.y)]_vars

\* C21 witness: Prey has fled and Hunter has approached, both off the edge
C21_FledAndPursued ==
  /\ pc = "checkCollisions" /\ Playable /\ Len(gameState.bots) = 2
  /\ \A i \in 1..2 : Interior(gameState.bots[i])
  /\ \E i, j \in 1..2 :
       /\ gameState.bots[i].name = "Prey" /\ gameState.bots[j].name = "Hunter"
       /\ gameState.bots[i].x > 3000 /\ gameState.bots[j].x < 3000

\* the pointer is on the centre of the viewport
PointerAtCentre ==
  mousePosition = <<VIEWPORT_WIDTH \div 2, VIEWPORT_HEIGHT \div 2>>

\* C22: a bot at distance 0 from the player that passes neither consumption
\* check stays in the array at the same position, its callback raising
\* nothing; and updatePlayerPosition with the pointer on the viewport centre
\* returns normally with the player's position and the viewport offset as
\* they were.
C22_ZeroDistanceIsHarmless ==
  [][/\ (pc = "updateBots" /\ ~Stopped(gameState)) =>
          \A i \in 1..Len(gameState.bots) :
            LET bot == gameState.bots[i]
                st == ReadPlayer(gameState)
                before == AccBefore(i)
            IN (/\ ~before.thrown
                /\ DistanceSq(st.playerX, st.playerY, bot.x, bot.y) = 0
                /\ Verdict(bot, st) = "none") =>
                 /\ ~BotStep(before, bot, st).thrown
                 /\ CellOfId(gameState'.bots, bot.id).x = bot.x
                 /\ CellOfId(gameState'.bots, bot.id).y = bot.y
     /\ (pc = "updatePlayerPosition" /\ ~Stopped(gameState) /\ PointerAtCentre) =>
          /\ ~thrown'
          /\ gameState'.player.x = gameState.player.x
          /\ gameState'.player.y = gameState.player.y
          /\ gameState'.map = gameState.map]_vars

\* C22 witness: with the pointer on the viewport centre the player has stayed
\* on its spawn point, and a bot of the player's mass standing on that very
\* point has gone through updateBots
C22_BotOnTopOfPlayer ==
  /\ pc = "checkCollisions" /\ Playable /\ PointerAtCentre /\ emits = 2
  /\ \E i \in 1..Len(gameState.bots) :
       /\ gameState.bots[i].x = gameState.player.x
       /\ gameState.bots[i].y = gameState.player.y
       /\ gameState.bots[i].mass = gameState.player.mass

\* C23: whenever there is a player, the viewport offset is the player's
\* position minus half the viewport, clamped to the map less the viewport.
C23_ViewportFollowsPlayer ==
  gameState.player # NULL => gameState.map = ViewportOf(gameState.map, gameState.player)

\* C24: for the bot population of every reachable state, findSafeSpawnLocation
\* has a run and every run returns a point of the map after at most
\* MAX_ATTEMPTS primary and FALLBACK_ATTEMPTS fallback draws; a point the
\* primary loop returns is farther than MIN_SAFE_DISTANCE from every bot given;
\* and the points returned are those of the runs.
C24_SpawnSearchIsBounded ==
  LET runs == SpawnRuns(0, gameState.bots)
  IN /\ runs # {}
     /\ findSafeSpawnLocation(gameState.bots) = {run.spot : run \in runs}
     /\ \A run \in runs :
          /\ run.primaryDraws <= MAX_ATTEMPTS /\ run.fallbackDraws <= FALLBACK_ATTEMPTS
          /\ 0 <= run.spot[1] /\ run.spot[1] <= MAP_WIDTH
          /\ 0 <= run.spot[2] /\ run.spot[2] <= MAP_HEIGHT
          /\ run.primary =>
               \A i \in 1..Len(gameState.bots) :
                 DistanceSq(run.spot[1], run.spot[2], gameState.bots[i].x, gameState.bots[i].y)
                   > MIN_SAFE_DISTANCE * MIN_SAFE_DISTANCE

\* C24 witness: a finished game, where restartGame is on offer, whose bots
\* make findSafeSpawnLocation reject a candidate, so that it has runs that
\* return from the primary loop and runs that go through the fallback
C24_BothLoopsCanReturn ==
  /\ pc = "idle" /\ gameState.gameOver /\ gameState.bots # <<>>
  /\ \E run \in SpawnRuns(0, gameState.bots) : run.primary /\ run.primaryDraws > 1
  /\ \E run \in SpawnRuns(0, gameState.bots) :
       ~run.primary /\ run.primaryDraws = MAX_ATTEMPTS

\* what calculateDynamicGameSpeed computes when it does not consult the memo
UncachedGameSpeed(player) ==
  IF player = NULL THEN BASE_GAME_SPEED * 10 ELSE GameSpeedOfMass(player.mass)

\* C25: in every reachable state calculateDynamicGameSpeed returns the
\* uncached value for the current player, the memo it leaves is that of the
\* current player's mass, and the memo found is either still the initial
\* (0, 0) or the speed of the mass it is keyed on.
C25_MemoIsNeverStale ==
  /\ calculateDynamicGameSpeed(gameState.player, Cache).value
       = UncachedGameSpeed(gameState.player)
  /\ gameState.player # NULL =>
       calculateDynamicGameSpeed(gameState.player, Cache).cache
         = [speed |-> UncachedGameSpeed(gameState.player), mass |-> gameState.player.mass]
  /\ \/ lastSpeedCalculationMass = 0 /\ lastCalculatedSpeed = 0
     \/ lastCalculatedSpeed = GameSpeedOfMass(lastSpeedCalculationMass)

\* C25 witness: a game built by a second initializeGame whose memo is keyed
\* on a mass other than the one the player has now
C25_MemoOfAnOlderMass ==
  /\ Playable /\ inits = 2
  /\ lastSpeedCalculationMass # 0
  /\ lastSpeedCalculationMass # gameState.player.mass

\* bots `after` are bots of `before`, in the order they had there, each with
\* the mass and the radius it had
OnlyShrunk(before, after) ==
  /\ Len(after) <= Len(before)
  /\ \A j \in 1..Len(after) :
       \E i \in 1..Len(before) :
         /\ before[i].id = after[j].id
         /\ before[i].mass = after[j].mass
         /\ before[i].radiusSq = after[j].radiusSq
         /\ \A k \in 1..(j - 1) :
              \E h \in 1..(i - 1) : before[h].id = after[k].id

\* C27: a step that is not an initializeGame, the three tick operations
\* included, adds no bot and no bot id, puts nothing in the place of a bot it
\* removes, and leaves every remaining bot its mass and its radius.
C27_BotsOnlyShrink ==
  [][inits' = inits => OnlyShrunk(gameState.bots, gameState'.bots)]_vars

\* C27 witness: a running game whose pass has just consumed a configured bot;
\* the population is one short of the configured one and the other bot is
\* there as configured
C27_EatenAndNotReplaced ==
  /\ pc = "checkCollisions" /\ Playable
  /\ botConfig # NULL /\ Len(botConfig.bots) = 2
  /\ Len(gameState.bots) = 1
  /\ gameState.bots[1].mass = Hunter.mass
  /\ gameState.bots[1].radiusSq = RadiusSqOfMass(Hunter.mass)

\* the game was last built for a configuration without bots
ProceduralGame == botConfig # NULL /\ botConfig.bots = <<>>

\* C28: while the installed configuration has no bots, the game never ends,
\* the player is there with at least its initial mass, no bot has the mass
\* the bot-eats-player condition asks for, and no step lowers the player's
\* mass.
C28_ProceduralGameNeverEnds ==
  /\ [](ProceduralGame =>
         /\ ~gameState.gameOver
         /\ gameState.player # NULL
         /\ gameState.player.mass >= 10 * INITIAL_PLAYER_MASS
         /\ \A i \in 1..Len(gameState.bots) :
              /\ gameState.bots[i].mass = 10 * INITIAL_PLAYER_MASS
              /\ ~BotOutweighs(gameState.bots[i].mass, gameState.player.mass))
  /\ [][(ProceduralGame /\ botConfig' = botConfig) =>
          gameState'.player.mass >= gameState.player.mass]_vars

\* C28 witness: a procedural game after an updateBots pass in which a bot
\* held the player's centre within its radius and the player has gained mass
C28_OverlappedAndAlive ==
  /\ ProceduralGame /\ Playable /\ pc = "idle" /\ frames >= 2
  /\ gameState.player.mass > 10 * INITIAL_PLAYER_MASS
  /\ \E i \in 1..Len(gameState.bots) :
       Within(DistanceSq(gameState.player.x, gameState.player.y,
                         gameState.bots[i].x, gameState.bots[i].y),
              gameState.bots[i].radiusSq)

\* C29: as long as initializeGame has not run, the state is the empty state
\* of the constructor and no tick operation has published a snapshot; the
\* load callback can run whenever the loop is between two ticks and the
\* request is pending, and an initializeGame never runs inside a tick; what
\* it published reaches the next tick untouched.
C29_TicksBeforeInitialisation ==
  /\ [](inits = 0 => gameState = EmptyState /\ emits = 0)
  /\ []((pc = "idle" /\ viewInit /\ configRequest = "pending") => ENABLED ConfigLoaded)
  /\ [][inits' # inits => pc = "idle"]_vars
  /\ [][(pc = "idle" /\ inits' = inits) => gameState' = gameState]_vars

\* C29 witness: two ticks ran on the empty state, the configuration arrived,
\* and updatePlayerPosition of the third tick has published the game that
\* initializeGame built (no speed has been computed yet, so no earlier tick
\* found bots to move)
C29_FirstTickAfterInitialisation ==
  /\ pc = "updateBots" /\ frames = 3 /\ inits = 1
  /\ emits = 1 /\ Playable
  /\ lastSpeedCalculationMass = 0
  /\ gameState.score = 0 /\ FoodLength(gameState.food) = FOOD_COUNT
  /\ Len(gameState.bots) = InitialBotCount(botConfig)

\* C30: at most one frame callback is pending, it is the one whose handle
\* the component holds in animationFrameId, and none is pending while a tick
\* runs, a tick started by restartGame included.
C30_OneLoop ==
  /\ Cardinality(pendingFrames) <= 1
  /\ pendingFrames \subseteq {animationFrameId}
  /\ pc # "idle" => pendingFrames = {}

\* C30 witness: restartGame has just started a tick; the frame requested at
\* the end of the previous tick had not run and is no longer pending
C30_RestartedWhilePending ==
  /\ pc = "updatePlayerPosition" /\ emits = 1
  /\ inits >= 2 /\ Playable
  /\ animationFrameId = frames - 1
  /\ pendingFrames = {}

====
